---- MODULE Spec2Model ----
(***************************************************************************)
(* magma: the capability-negotiation layer in front of Vulkan.             *)
(*   src/src/lib.rs            Entry (loader handle, two OnceCell caches)  *)
(*   src/src/instance/mod.rs   Instance (context), CreationError, Drop     *)
(*   src/src/sync/sharing_mode.rs   SharingQueues                          *)
(* Threads share one Entry and the Instances built from it.  A thread's    *)
(* position inside a call is pc[t]; a call is split only where it meets a  *)
(* OnceCell (the closure runs while the other callers of that cell block). *)
(* A panic ends the panicking thread; the other threads go on.             *)
(***************************************************************************)
EXTENDS Integers, Sequences, FiniteSets, TLC

\* ---------------------------------------------------------------- bounds
\* Spec: several threads, short driver replies and requests.
NumThreads == 2
ConcDriverNames == 1
ConcReq == 1
ConcAdapters == 1
\* SpecSeq: one thread, longer driver replies and requests.
MaxDriverNames == 2
MaxReq == 2
MaxAdapters == 2
\* Both: the Instances that can be built.
MaxInstances == 1
\* SpecSharing: the devices, the queue family ids and queue indices (below
\* MaxQueueId) and the length of the queue list a SharingQueues is built from.
MaxDevices == 2
MaxQueueId == 3
MaxFromLen == 2

Threads == 1..NumThreads
SeqThreads == {1}
Slots == 1..MaxInstances

\* ------------------------------------------------- capability registries
\* The extension families the Instance keeps a function table for.
Extension ==
    {"KhrSurface", "KhrXcbSurface", "KhrXlibSurface", "KhrWaylandSurface"}

\* The validation layers the code names.
ValidationLayer ==
    {"KhronosValidation"}

\* Extension::c_name: the canonical name of an extension.
ExtCName(e) ==
    CASE e = "KhrSurface" -> "VK_KHR_surface"
      [] e = "KhrXcbSurface" -> "VK_KHR_xcb_surface"
      [] e = "KhrXlibSurface" -> "VK_KHR_xlib_surface"
      [] e = "KhrWaylandSurface" -> "VK_KHR_wayland_surface"

\* ValidationLayer::c_name.
LayerCName(l) ==
    CASE l = "KhronosValidation" -> "VK_LAYER_KHRONOS_validation"

\* Names a driver may report: the known ones and one this layer does not know.
\* The second unknown name of each kind is not UTF-8 encoded.
DriverExtNames ==
    {ExtCName(e) : e \in Extension} \cup {"VK_EXT_unknown", "VK_EXT_not_utf8"}

DriverLayerNames ==
    {LayerCName(l) : l \in ValidationLayer}
        \cup {"VK_LAYER_unknown", "VK_LAYER_not_utf8"}

\* CStr::to_str succeeds on a name.
IsUtf8(n) ==
    n \notin {"VK_EXT_not_utf8", "VK_LAYER_not_utf8"}

\* Extension::from_c_name: Some(ext) for a known name, None otherwise.
\* None is modelled as the empty set, Some(e) as {e}.
ExtFromCName(n) ==
    {e \in Extension : ExtCName(e) = n}

\* ValidationLayer::from_c_name.
LayerFromCName(n) ==
    {l \in ValidationLayer : LayerCName(l) = n}

\* Extensions::none / ValidationLayers::none, insert and contains.
SetNone ==
    {}

SetInsert(s, x) ==
    s \cup {x}

SetContains(s, x) ==
    x \in s

\* All sequences over S of length at most n.
SeqsUpTo(S, n) ==
    UNION {[1..k -> S] : k \in 0..n}

\* The set of elements of a sequence.
Range(s) ==
    {s[k] : k \in 1..Len(s)}

\* ------------------------------------------------------------------ state
VARIABLES
    debugBuild,     \* cfg(debug_assertions) of the build
    loader,         \* ash::Entry: "none", "live", "failed", "dropped"
    entryRefs,      \* strong count of the Arc<Entry>
    appEntry,       \* the application still holds its Arc<Entry>
    extensions,     \* Entry.extensions : OnceCell<Extensions>
    layers,         \* Entry.layers : OnceCell<ValidationLayers>
    extEnumCalls,   \* enumerate_instance_extension_properties calls made
    layerEnumCalls, \* enumerate_instance_layer_properties calls made
    extInitPanics,  \* runs of the extensions closure that ended in a panic
    layerInitPanics,
    extReturned,    \* every set a call of Entry::extensions returned
    layerReturned,
    inst,           \* the Instances, by slot
    leaked,         \* native instances created and owned by no Instance
    pc,             \* each thread's position
    call,           \* each thread's call in progress and its locals
    done,           \* the call that ended last, with what it returned
    sharing,        \* a SharingQueues value, once built
    sharingRet      \* the call on it that ended last, with what it returned

vars ==
    <<debugBuild, loader, entryRefs, appEntry, extensions, layers,
      extEnumCalls, layerEnumCalls, extInitPanics, layerInitPanics, extReturned,
      layerReturned, inst, leaked, pc, call, done, sharing, sharingRet>>

\* The Entry and its Instances.
coreVars ==
    <<debugBuild, loader, entryRefs, appEntry, extensions, layers,
      extEnumCalls, layerEnumCalls, extInitPanics, layerInitPanics, extReturned,
      layerReturned, inst, leaked, pc, call, done>>

sharingVars ==
    <<sharing, sharingRet>>

loaderVars ==
    <<loader, entryRefs, appEntry>>

extCacheVars ==
    <<extensions, extEnumCalls, extInitPanics, extReturned>>

layerCacheVars ==
    <<layers, layerEnumCalls, layerInitPanics, layerReturned>>

\* OnceCell::new()
EmptyCell ==
    [st |-> "empty", val |-> {}]

\* A thread with no call.
NoCall ==
    [op |-> "none", slot |-> 0, fam |-> "none",
     reqExt |-> <<>>, reqLay |-> <<>>, raw |-> <<>>,
     availExt |-> {}, availLay |-> {}]

\* No call has ended yet.  An ended call keeps its arguments (slot, fam,
\* index, reqExt, reqLay), what it saw and did (availExt, availLay, raw,
\* native, nativeRes, enabled, extNames, layNames, adapters, resolved) and
\* its result (kind, name, set, views, tbl); `again` says that the accessor
\* call follows a failed call for the same family.
NoDone ==
    [op |-> "none", by |-> 0, slot |-> 0, fam |-> "none", index |-> 0,
     reqExt |-> <<>>, reqLay |-> <<>>, raw |-> <<>>,
     availExt |-> {}, availLay |-> {},
     native |-> FALSE, nativeRes |-> "none",
     enabled |-> {}, extNames |-> <<>>, layNames |-> <<>>,
     adapters |-> <<>>, resolved |-> FALSE,
     kind |-> "none", name |-> "none", set |-> {}, views |-> <<>>,
     tbl |-> 0, again |-> FALSE]

\* No SharingQueues has been built.
NoSharing ==
    [st |-> "none", device |-> 0, queues |-> <<>>]

\* No call on a SharingQueues has ended.
NoSharingRet ==
    [op |-> "none", kind |-> "none", mode |-> "none", count |-> 0,
     indices |-> <<>>]

\* An Instance slot nobody has constructed yet.  Beside the fields of the
\* Instance there is its history: the adapters reported and how often they
\* were enumerated, how often each family was resolved, the family of the
\* accessor call that failed last, how often the handle was destroyed.
NoInstance ==
    [st |-> "none", loaded |-> {},
     devs |-> <<>>, reported |-> <<>>, enumCalls |-> 0,
     cell |-> [x \in Extension |-> [st |-> "empty", val |-> 0]],
     resolved |-> [x \in Extension |-> 0],
     failedLast |-> "none",
     destroyed |-> 0]

Init ==
    /\ debugBuild \in BOOLEAN
    /\ loader = "none"
    /\ entryRefs = 0
    /\ appEntry = FALSE
    /\ extensions = EmptyCell
    /\ layers = EmptyCell
    /\ extEnumCalls = 0
    /\ layerEnumCalls = 0
    /\ extInitPanics = 0
    /\ layerInitPanics = 0
    /\ extReturned = {}
    /\ layerReturned = {}
    /\ inst = [i \in Slots |-> NoInstance]
    /\ leaked = 0
    /\ pc = [t \in Threads |-> "idle"]
    /\ call = [t \in Threads |-> NoCall]
    /\ done = NoDone
    /\ sharing = NoSharing
    /\ sharingRet = NoSharingRet

\* ------------------------------------------------------------ Entry::new
\* ash::Entry::new()? : the loader is found, or the LoadingError is returned
\* and there is no Entry at all.
EntryNew ==
    /\ loader = "none"
    /\ \E ok \in BOOLEAN :
          IF ok
          THEN /\ loader' = "live"
               /\ entryRefs' = 1
               /\ appEntry' = TRUE
          ELSE /\ loader' = "failed"
               /\ UNCHANGED <<entryRefs, appEntry>>
    /\ UNCHANGED sharingVars
    /\ UNCHANGED <<debugBuild, extCacheVars, layerCacheVars, inst, leaked,
                   pc, call>>
    /\ done' = NoDone

\* An Arc<Entry> is dropped: the count goes down and the last one takes the
\* loader with it.
ReleaseEntryRef ==
    /\ entryRefs' = entryRefs - 1
    /\ loader' = IF entryRefs = 1 THEN "dropped" ELSE loader

\* The application drops its own Arc<Entry>.  Nobody is inside a call made
\* through that reference.
AppDropEntry ==
    /\ appEntry
    /\ \A t \in Threads : pc[t] \notin {"ext_init", "lay_init"}
    /\ appEntry' = FALSE
    /\ ReleaseEntryRef
    /\ UNCHANGED sharingVars
    /\ UNCHANGED <<debugBuild, extCacheVars, layerCacheVars, inst, leaked,
                   pc, call>>
    /\ done' = NoDone

\* An idle thread that can reach the Entry through the application's
\* reference.
StandaloneCaller(t) ==
    /\ pc[t] = "idle"
    /\ loader = "live"
    /\ appEntry

\* The record of thread t's call as it ends.
Ended(t, op) ==
    [NoDone EXCEPT !.op = op, !.by = t, !.slot = call[t].slot,
                   !.fam = call[t].fam, !.reqExt = call[t].reqExt,
                   !.reqLay = call[t].reqLay, !.raw = call[t].raw,
                   !.availExt = call[t].availExt,
                   !.availLay = call[t].availLay]

\* A panic unwinds the thread, which is gone for good.  Inside create the
\* `entry` argument is dropped on the way out.
Panic(t, op, rec) ==
    /\ pc' = [pc EXCEPT ![t] = "panicked"]
    /\ call' = [call EXCEPT ![t] = NoCall]
    /\ done' = [rec EXCEPT !.op = op, !.by = t, !.kind = "panic"]
    /\ IF op = "create" THEN ReleaseEntryRef
       ELSE UNCHANGED <<entryRefs, loader>>

\* ------------------------------------------- Entry::extensions (lib.rs 83)
\* The mapping pass of the closure: known names are inserted, unknown ones
\* are skipped with a warning.
RECURSIVE MapExtNames(_, _)
MapExtNames(names, acc) ==
    IF names = <<>>
    THEN acc
    ELSE LET some == ExtFromCName(Head(names))
         IN MapExtNames(Tail(names),
                IF some # {}
                THEN SetInsert(acc, CHOOSE e \in some : TRUE)
                ELSE acc)

\* The warning for an unknown name needs it as UTF-8: expect() panics
\* otherwise.
ExtMapPanics(names) ==
    \E k \in 1..Len(names) :
        ExtFromCName(names[k]) = {} /\ ~IsUtf8(names[k])

\* A query that asks the driver again whenever nobody else is asking.
ExtNeedsInit_Always ==
    extensions.st # "running"

\* get_or_init runs the closure only on an empty cell.
ExtNeedsInit ==
    extensions.st = "empty"

\* A cell read without waiting for the closure that is filling it.
ExtReadable_Torn ==
    extensions.st # "empty"

\* get_or_init hands out the value of a filled cell only; a caller that finds
\* the cell being initialised waits.
ExtReadable ==
    extensions.st = "full"

\* The thread calling Entry::extensions is inside create (line 86).
ExtInCreate(t) ==
    pc[t] \in {"create_ext", "create_ext_init"}

\* Where a thread goes once Entry::extensions has given it the set s: back to
\* the caller of a stand-alone query, or on to line 87 of create.
AfterExtensions(t, s) ==
    IF ExtInCreate(t)
    THEN /\ pc' = [pc EXCEPT ![t] = "create_lay"]
         /\ call' = [call EXCEPT ![t].availExt = s, ![t].raw = <<>>]
         /\ done' = NoDone
    ELSE /\ pc' = [pc EXCEPT ![t] = "idle"]
         /\ call' = [call EXCEPT ![t] = NoCall]
         /\ done' = [Ended(t, "extensions") EXCEPT !.kind = "Ok", !.set = s]

\* get_or_init on a filled cell: the cached set, no driver interaction.
ExtGet(t) ==
    /\ pc[t] = "create_ext" \/ StandaloneCaller(t)
    /\ ExtReadable
    /\ extReturned' = extReturned \cup {extensions.val}
    /\ AfterExtensions(t, extensions.val)
    /\ UNCHANGED sharingVars
    /\ UNCHANGED <<debugBuild, loaderVars, extensions, extEnumCalls,
                   extInitPanics, layerCacheVars, inst, leaked>>

\* get_or_init on an empty cell: this caller runs the closure.  The driver
\* enumeration either fails (unwrap panics, the cell stays empty) or gives a
\* list of at most n names.
ExtInitBegin(t, n) ==
    /\ pc[t] = "create_ext" \/ StandaloneCaller(t)
    /\ ExtNeedsInit
    /\ extEnumCalls' = extEnumCalls + 1
    /\ \/ /\ Panic(t, IF ExtInCreate(t) THEN "create" ELSE "extensions",
                   Ended(t, "none"))
          /\ extInitPanics' = extInitPanics + 1
          /\ UNCHANGED extensions
       \/ \E names \in SeqsUpTo(DriverExtNames, n) :
             /\ extensions' = [extensions EXCEPT !.st = "running"]
             /\ call' = [call EXCEPT ![t].raw = names]
             /\ pc' = [pc EXCEPT ![t] =
                         IF ExtInCreate(t) THEN "create_ext_init"
                         ELSE "ext_init"]
             /\ UNCHANGED <<extInitPanics, entryRefs, loader>>
             /\ done' = NoDone
    /\ UNCHANGED sharingVars
    /\ UNCHANGED <<debugBuild, appEntry, extReturned, layerCacheVars, inst,
                   leaked>>

\* The closure maps the names and returns: the cell is filled and the caller
\* gets the set.  A panic in the mapping pass leaves the cell empty.
ExtInitEnd(t) ==
    /\ pc[t] \in {"ext_init", "create_ext_init"}
    /\ IF ExtMapPanics(call[t].raw)
       THEN /\ Panic(t, IF ExtInCreate(t) THEN "create" ELSE "extensions",
                     Ended(t, "none"))
            /\ extensions' = EmptyCell
            /\ extInitPanics' = extInitPanics + 1
            /\ UNCHANGED extReturned
       ELSE LET s == MapExtNames(call[t].raw, SetNone)
            IN /\ extensions' = [st |-> "full", val |-> s]
               /\ extReturned' = extReturned \cup {s}
               /\ AfterExtensions(t, s)
               /\ UNCHANGED <<extInitPanics, entryRefs, loader>>
    /\ UNCHANGED sharingVars
    /\ UNCHANGED <<debugBuild, appEntry, extEnumCalls, layerCacheVars, inst,
                   leaked>>

\* ----------------------------------- Entry::validation_layers (lib.rs 62)
RECURSIVE MapLayerNames(_, _)
MapLayerNames(names, acc) ==
    IF names = <<>>
    THEN acc
    ELSE LET some == LayerFromCName(Head(names))
         IN MapLayerNames(Tail(names),
                IF some # {}
                THEN SetInsert(acc, CHOOSE l \in some : TRUE)
                ELSE acc)

LayerMapPanics(names) ==
    \E k \in 1..Len(names) :
        LayerFromCName(names[k]) = {} /\ ~IsUtf8(names[k])

LayerNeedsInit ==
    layers.st = "empty"

LayerReadable ==
    layers.st = "full"

\* The thread calling Entry::validation_layers is inside create (line 87).
LayerInCreate(t) ==
    pc[t] \in {"create_lay", "create_lay_init"}

\* Back to the caller of a stand-alone query, or on to line 89 of create.
AfterLayers(t, s) ==
    IF LayerInCreate(t)
    THEN /\ pc' = [pc EXCEPT ![t] = "create_neg"]
         /\ call' = [call EXCEPT ![t].availLay = s, ![t].raw = <<>>]
         /\ done' = NoDone
    ELSE /\ pc' = [pc EXCEPT ![t] = "idle"]
         /\ call' = [call EXCEPT ![t] = NoCall]
         /\ done' = [Ended(t, "validation_layers") EXCEPT
                        !.kind = "Ok", !.set = s]

LayerGet(t) ==
    /\ pc[t] = "create_lay" \/ StandaloneCaller(t)
    /\ LayerReadable
    /\ layerReturned' = layerReturned \cup {layers.val}
    /\ AfterLayers(t, layers.val)
    /\ UNCHANGED sharingVars
    /\ UNCHANGED <<debugBuild, loaderVars, layers, layerEnumCalls,
                   layerInitPanics, extCacheVars, inst, leaked>>

LayerInitBegin(t, n) ==
    /\ pc[t] = "create_lay" \/ StandaloneCaller(t)
    /\ LayerNeedsInit
    /\ layerEnumCalls' = layerEnumCalls + 1
    /\ \/ /\ Panic(t, IF LayerInCreate(t) THEN "create"
                      ELSE "validation_layers", Ended(t, "none"))
          /\ layerInitPanics' = layerInitPanics + 1
          /\ UNCHANGED layers
       \/ \E names \in SeqsUpTo(DriverLayerNames, n) :
             /\ layers' = [layers EXCEPT !.st = "running"]
             /\ call' = [call EXCEPT ![t].raw = names]
             /\ pc' = [pc EXCEPT ![t] =
                         IF LayerInCreate(t) THEN "create_lay_init"
                         ELSE "lay_init"]
             /\ UNCHANGED <<layerInitPanics, entryRefs, loader>>
             /\ done' = NoDone
    /\ UNCHANGED sharingVars
    /\ UNCHANGED <<debugBuild, appEntry, layerReturned, extCacheVars, inst,
                   leaked>>

LayerInitEnd(t) ==
    /\ pc[t] \in {"lay_init", "create_lay_init"}
    /\ IF LayerMapPanics(call[t].raw)
       THEN /\ Panic(t, IF LayerInCreate(t) THEN "create"
                        ELSE "validation_layers", Ended(t, "none"))
            /\ layers' = EmptyCell
            /\ layerInitPanics' = layerInitPanics + 1
            /\ UNCHANGED layerReturned
       ELSE LET s == MapLayerNames(call[t].raw, SetNone)
            IN /\ layers' = [st |-> "full", val |-> s]
               /\ layerReturned' = layerReturned \cup {s}
               /\ AfterLayers(t, s)
               /\ UNCHANGED <<layerInitPanics, entryRefs, loader>>
    /\ UNCHANGED sharingVars
    /\ UNCHANGED <<debugBuild, appEntry, layerEnumCalls, extCacheVars, inst,
                   leaked>>

\* --------------------- Instance::with_validation_layers (instance/mod.rs 84)
\* vk::Result values of create_instance and the loader's own LoadError.
NativeResults ==
    {"SUCCESS", "ERROR_OUT_OF_HOST_MEMORY", "ERROR_OUT_OF_DEVICE_MEMORY",
     "ERROR_INITIALIZATION_FAILED", "ERROR_LAYER_NOT_PRESENT",
     "ERROR_EXTENSION_NOT_PRESENT", "ERROR_INCOMPATIBLE_DRIVER", "LoadError"}

\* A conversion that reports a failed initialisation as a loader failure.
CreationErrorFrom_InitAsLoad(r) ==
    CASE r = "LoadError" -> "LoadError"
      [] r = "ERROR_OUT_OF_HOST_MEMORY" -> "OutOfMemoryHost"
      [] r = "ERROR_OUT_OF_DEVICE_MEMORY" -> "OutOfMemoryDevice"
      [] r = "ERROR_INITIALIZATION_FAILED" -> "LoadError"
      [] r = "ERROR_LAYER_NOT_PRESENT" -> "panic"
      [] r = "ERROR_EXTENSION_NOT_PRESENT" -> "panic"
      [] r = "ERROR_INCOMPATIBLE_DRIVER" -> "IncompatibleDriver"
      [] OTHER -> "panic"

\* A conversion that hands the native "not present" codes to the caller.
CreationErrorFrom_NotPresentAsMissing(r) ==
    CASE r = "LoadError" -> "LoadError"
      [] r = "ERROR_OUT_OF_HOST_MEMORY" -> "OutOfMemoryHost"
      [] r = "ERROR_OUT_OF_DEVICE_MEMORY" -> "OutOfMemoryDevice"
      [] r = "ERROR_INITIALIZATION_FAILED" -> "InitializationFailed"
      [] r = "ERROR_LAYER_NOT_PRESENT" -> "MissingValidationLayer"
      [] r = "ERROR_EXTENSION_NOT_PRESENT" -> "MissingExtension"
      [] r = "ERROR_INCOMPATIBLE_DRIVER" -> "IncompatibleDriver"
      [] OTHER -> "panic"

\* From<ash::InstanceError> and From<vk::Result> for CreationError.
CreationErrorFrom(r) ==
    CASE r = "LoadError" -> "LoadError"
      [] r = "ERROR_OUT_OF_HOST_MEMORY" -> "OutOfMemoryHost"
      [] r = "ERROR_OUT_OF_DEVICE_MEMORY" -> "OutOfMemoryDevice"
      [] r = "ERROR_INITIALIZATION_FAILED" -> "InitializationFailed"
      [] r = "ERROR_LAYER_NOT_PRESENT" -> "panic"
      [] r = "ERROR_EXTENSION_NOT_PRESENT" -> "panic"
      [] r = "ERROR_INCOMPATIBLE_DRIVER" -> "IncompatibleDriver"
      [] OTHER -> "panic"

\* A negotiation that keeps only the extension it saw last.
RECURSIVE NegotiateExtensions_LastOnly(_, _, _, _)
NegotiateExtensions_LastOnly(avail, req, loaded, names) ==
    IF req = <<>>
    THEN [err |-> "none", set |-> loaded, names |-> names]
    ELSE IF ~SetContains(avail, Head(req))
         THEN [err |-> Head(req), set |-> loaded, names |-> names]
         ELSE NegotiateExtensions_LastOnly(avail, Tail(req),
                  {Head(req)},
                  Append(names, ExtCName(Head(req))))

\* A negotiation that enables what is available and passes over the rest.
RECURSIVE NegotiateExtensions_Partial(_, _, _, _)
NegotiateExtensions_Partial(avail, req, loaded, names) ==
    IF req = <<>>
    THEN [err |-> "none", set |-> loaded, names |-> names]
    ELSE IF ~SetContains(avail, Head(req))
         THEN NegotiateExtensions_Partial(avail, Tail(req), loaded, names)
         ELSE NegotiateExtensions_Partial(avail, Tail(req),
                  SetInsert(loaded, Head(req)),
                  Append(names, ExtCName(Head(req))))

\* A negotiation that goes through the whole request and reports the
\* unavailable extension it saw last.
RECURSIVE NegotiateExtensions_LastMissing(_, _, _, _)
NegotiateExtensions_LastMissing(avail, req, loaded, names) ==
    IF req = <<>>
    THEN [err |-> "none", set |-> loaded, names |-> names]
    ELSE LET rest == NegotiateExtensions_LastMissing(avail, Tail(req),
                         SetInsert(loaded, Head(req)),
                         Append(names, ExtCName(Head(req))))
         IN IF rest.err # "none" \/ SetContains(avail, Head(req))
            THEN rest
            ELSE [err |-> Head(req), set |-> loaded, names |-> names]

\* Lines 89-98: the requested extensions in request order.  The first one
\* that is not available ends the loop with MissingExtension.
RECURSIVE NegotiateExtensions(_, _, _, _)
NegotiateExtensions(avail, req, loaded, names) ==
    IF req = <<>>
    THEN [err |-> "none", set |-> loaded, names |-> names]
    ELSE IF ~SetContains(avail, Head(req))
         THEN [err |-> Head(req), set |-> loaded, names |-> names]
         ELSE NegotiateExtensions(avail, Tail(req),
                  SetInsert(loaded, Head(req)),
                  Append(names, ExtCName(Head(req))))

\* A debug build that enables the Khronos layer without looking for it.
DebugLayer_Unchecked(debug, avail) ==
    IF debug
    THEN [set |-> {"KhronosValidation"},
          names |-> <<LayerCName("KhronosValidation")>>]
    ELSE [set |-> SetNone, names |-> <<>>]

\* Lines 100-112: in a debug build the Khronos validation layer is enabled
\* when it is available, and only warned about when it is not.
DebugLayer(debug, avail) ==
    IF debug /\ SetContains(avail, "KhronosValidation")
    THEN [set |-> {"KhronosValidation"},
          names |-> <<LayerCName("KhronosValidation")>>]
    ELSE [set |-> SetNone, names |-> <<>>]

\* A layer negotiation that passes over the layers that are not available.
RECURSIVE NegotiateLayers_Partial(_, _, _, _)
NegotiateLayers_Partial(avail, req, enabled, names) ==
    IF req = <<>>
    THEN [err |-> "none", set |-> enabled, names |-> names]
    ELSE IF ~SetContains(avail, Head(req))
         THEN NegotiateLayers_Partial(avail, Tail(req), enabled, names)
         ELSE NegotiateLayers_Partial(avail, Tail(req),
                  SetInsert(enabled, Head(req)),
                  Append(names, LayerCName(Head(req))))

\* Lines 114-121: the requested layers in request order.
RECURSIVE NegotiateLayers(_, _, _, _)
NegotiateLayers(avail, req, enabled, names) ==
    IF req = <<>>
    THEN [err |-> "none", set |-> enabled, names |-> names]
    ELSE IF ~SetContains(avail, Head(req))
         THEN [err |-> Head(req), set |-> enabled, names |-> names]
         ELSE NegotiateLayers(avail, Tail(req),
                  SetInsert(enabled, Head(req)),
                  Append(names, LayerCName(Head(req))))

\* The lists of at most a adapters enumerate_physical_devices may give:
\* distinct handles, in the driver's order.
AdapterLists(a) ==
    {s \in SeqsUpTo(1..a, a) :
        \A j, k \in 1..Len(s) : j # k => s[j] # s[k]}

\* Lines 139-152: one PhysicalDeviceInfo per adapter, in enumeration order.
\* What the driver says about an adapter depends on the adapter only.
PhysicalDeviceInfo(pd) ==
    [handle |-> pd, queue_family_properties |-> pd - 1]

CaptureInfo(adapters) ==
    [k \in 1..Len(adapters) |-> PhysicalDeviceInfo(adapters[k])]

\* A construction that resolves the tables of the loaded families at once.
NewInstance_Prefilled(loaded, adapters) ==
    [NoInstance EXCEPT !.st = "live",
                       !.loaded = loaded,
                       !.devs = CaptureInfo(adapters),
                       !.reported = adapters,
                       !.enumCalls = 1,
                       !.cell = [x \in Extension |->
                                   IF x \in loaded
                                   THEN [st |-> "full", val |-> 1]
                                   ELSE [st |-> "empty", val |-> 0]],
                       !.resolved = [x \in Extension |->
                                       IF x \in loaded THEN 1 ELSE 0]]

\* Lines 154-163: the Instance, every extension table cell empty.
NewInstance(loaded, adapters) ==
    [NoInstance EXCEPT !.st = "live",
                       !.loaded = loaded,
                       !.devs = CaptureInfo(adapters),
                       !.reported = adapters,
                       !.enumCalls = 1]

FreeSlots ==
    {i \in Slots : inst[i].st = "none"}

CreatePcs ==
    {"create_ext", "create_ext_init", "create_lay", "create_lay_init",
     "create_neg"}

\* The caller hands create a clone of its Arc<Entry> and the two request
\* lists, of at most n entries each.  (Instance::new is the call with no
\* layers.)
StartCreate(t, n) ==
    /\ StandaloneCaller(t)
    /\ Cardinality(FreeSlots)
          > Cardinality({u \in Threads : pc[u] \in CreatePcs})
    /\ \E re \in SeqsUpTo(Extension, n),
          rl \in SeqsUpTo(ValidationLayer, n) :
          call' = [call EXCEPT ![t] =
                      [NoCall EXCEPT !.op = "create", !.reqExt = re,
                                     !.reqLay = rl]]
    /\ pc' = [pc EXCEPT ![t] = "create_ext"]
    /\ entryRefs' = entryRefs + 1
    /\ UNCHANGED sharingVars
    /\ UNCHANGED <<debugBuild, loader, appEntry, extCacheVars,
                   layerCacheVars, inst, leaked>>
    /\ done' = NoDone

\* create returns Err(e): the `entry` argument is dropped.
CreateFails(t, rec, kind, name) ==
    /\ done' = [rec EXCEPT !.kind = kind, !.name = name]
    /\ pc' = [pc EXCEPT ![t] = "idle"]
    /\ call' = [call EXCEPT ![t] = NoCall]
    /\ ReleaseEntryRef
    /\ UNCHANGED <<inst, leaked>>

\* Lines 89-165, with both availability sets at hand.
CreateNegotiate(t, a) ==
    /\ pc[t] = "create_neg"
    /\ LET c == Ended(t, "create")
           ne == NegotiateExtensions(c.availExt, c.reqExt, SetNone, <<>>)
           dl == DebugLayer(debugBuild, c.availLay)
           nl == NegotiateLayers(c.availLay, c.reqLay, dl.set, dl.names)
           cn == [c EXCEPT !.native = TRUE, !.enabled = nl.set,
                           !.extNames = ne.names, !.layNames = nl.names]
       IN IF ne.err # "none"
          THEN CreateFails(t, c, "MissingExtension", ne.err)
          ELSE IF nl.err # "none"
          THEN CreateFails(t, c, "MissingValidationLayer", nl.err)
          ELSE \E r \in NativeResults :
               LET cr == [cn EXCEPT !.nativeRes = r]
               IN IF r # "SUCCESS"
                  THEN IF CreationErrorFrom(r) = "panic"
                       THEN /\ Panic(t, "create", cr)
                            /\ UNCHANGED <<inst, leaked>>
                       ELSE CreateFails(t, cr, CreationErrorFrom(r), "none")
                  ELSE \/ /\ Panic(t, "create", cr)
                          /\ leaked' = leaked + 1
                          /\ UNCHANGED inst
                       \/ \E adapters \in AdapterLists(a) :
                          LET i == CHOOSE j \in FreeSlots :
                                      \A k \in FreeSlots : j <= k
                          IN /\ inst' = [inst EXCEPT ![i] =
                                   NewInstance(ne.set, adapters)]
                             /\ done' = [cr EXCEPT !.kind = "Ok", !.slot = i,
                                                   !.adapters = adapters]
                             /\ call' = [call EXCEPT ![t] = NoCall]
                             /\ pc' = [pc EXCEPT ![t] = "idle"]
                             /\ UNCHANGED <<entryRefs, loader, leaked>>
    /\ UNCHANGED sharingVars
    /\ UNCHANGED <<debugBuild, appEntry, extCacheVars, layerCacheVars>>

\* ------------------------------------------- the Instance's read accessors
\* A thread may use the Instance in slot i.
Usable(t, i) ==
    /\ pc[t] = "idle"
    /\ inst[i].st = "live"

\* PhysicalDevice::new(instance, index): a view is the pair.
PhysicalDeviceNew(i, index) ==
    [slot |-> i, index |-> index]

\* Instance::physical_devices: a view for each index below the length.
PhysicalDevicesOf(i) ==
    LET len == Len(inst[i].devs)
    IN [k \in 1..len |-> PhysicalDeviceNew(i, k - 1)]

PhysicalDevices(t, i) ==
    /\ Usable(t, i)
    /\ done' = [NoDone EXCEPT !.op = "physical_devices", !.by = t,
                              !.slot = i, !.kind = "Ok",
                              !.views = PhysicalDevicesOf(i)]
    /\ UNCHANGED sharingVars
    /\ UNCHANGED <<debugBuild, loaderVars, extCacheVars, layerCacheVars,
                   inst, leaked, pc, call>>

\* A bounds test that lets the length itself through.
PhysicalDeviceOf_OffByOne(i, index) ==
    IF index <= Len(inst[i].devs)
    THEN <<PhysicalDeviceNew(i, index)>>
    ELSE <<>>

\* Instance::physical_device: Some(view) for an index below the length.
\* Some(v) is modelled as <<v>>, None as <<>>.
PhysicalDeviceOf(i, index) ==
    IF index < Len(inst[i].devs)
    THEN <<PhysicalDeviceNew(i, index)>>
    ELSE <<>>

PhysicalDevice(t, i, a) ==
    /\ Usable(t, i)
    /\ \E index \in 0..(a + 1) :
          done' = [NoDone EXCEPT
                      !.op = "physical_device", !.by = t, !.slot = i,
                      !.index = index,
                      !.kind = IF PhysicalDeviceOf(i, index) = <<>>
                               THEN "None" ELSE "Some",
                      !.views = PhysicalDeviceOf(i, index)]
    /\ UNCHANGED sharingVars
    /\ UNCHANGED <<debugBuild, loaderVars, extCacheVars, layerCacheVars,
                   inst, leaked, pc, call>>

\* ------------------------------ ext_khr_* (instance/mod.rs 198-236)
\* The four accessors are the same code over four cells: x names the family.
\* get_or_try_init on a filled cell: the cached table.
TableReadable(i, x) ==
    inst[i].cell[x].st = "full"

\* A cell whose closure a second caller may run while the first is in it.
TableNeedsInit_Racy(i, x) ==
    inst[i].cell[x].st # "full"

\* get_or_try_init runs the closure only on an empty cell; a caller that
\* finds the cell being initialised waits.
TableNeedsInit(i, x) ==
    inst[i].cell[x].st = "empty"

\* Every accessor testing the khr_surface field.
TableLoaded_WrongField(i, x) ==
    SetContains(inst[i].loaded, "KhrSurface")

\* The closure's test of the loaded_extensions field of the family.
TableLoaded(i, x) ==
    SetContains(inst[i].loaded, x)

ExtTableGet(t, i, x) ==
    /\ Usable(t, i)
    /\ TableReadable(i, x)
    /\ done' = [NoDone EXCEPT !.op = "ext_table", !.by = t, !.slot = i,
                              !.fam = x, !.kind = "Ok",
                              !.tbl = inst[i].cell[x].val,
                              !.again = (inst[i].failedLast = x)]
    /\ UNCHANGED sharingVars
    /\ UNCHANGED <<debugBuild, loaderVars, extCacheVars, layerCacheVars,
                   inst, leaked, pc, call>>

ExtTableInitBegin(t, i, x) ==
    /\ Usable(t, i)
    /\ TableNeedsInit(i, x)
    /\ inst' = [inst EXCEPT ![i].cell[x].st = "running"]
    /\ call' = [call EXCEPT ![t] =
                  [NoCall EXCEPT !.op = "ext_table", !.slot = i, !.fam = x]]
    /\ pc' = [pc EXCEPT ![t] = "tbl_init"]
    /\ UNCHANGED sharingVars
    /\ UNCHANGED <<debugBuild, loaderVars, extCacheVars, layerCacheVars,
                   leaked>>
    /\ done' = NoDone

\* An accessor that stores every table in the cell of khr_surface.
ExtTableInitEnd_WrongCell(t) ==
    /\ pc[t] = "tbl_init"
    /\ LET i == call[t].slot
           x == call[t].fam
       IN IF TableLoaded(i, x)
          THEN LET n == inst[i].resolved[x] + 1
               IN /\ inst' = [inst EXCEPT
                                 ![i].resolved[x] = n,
                                 ![i].cell =
                                     [[y \in Extension |->
                                         IF y = x
                                         THEN [st |-> "empty", val |-> 0]
                                         ELSE inst[i].cell[y]]
                                      EXCEPT !["KhrSurface"] =
                                         [st |-> "full", val |-> n]]]
                  /\ done' = [Ended(t, "ext_table") EXCEPT
                                 !.kind = "Ok", !.tbl = n, !.resolved = TRUE,
                                 !.again = (inst[i].failedLast = x)]
          ELSE /\ inst' = [inst EXCEPT ![i].cell[x].st = "empty",
                                       ![i].failedLast = x]
               /\ done' = [Ended(t, "ext_table") EXCEPT
                              !.kind = "MissingExtensionError", !.name = x,
                              !.again = (inst[i].failedLast = x)]
    /\ pc' = [pc EXCEPT ![t] = "idle"]
    /\ call' = [call EXCEPT ![t] = NoCall]
    /\ UNCHANGED sharingVars
    /\ UNCHANGED <<debugBuild, loaderVars, extCacheVars, layerCacheVars,
                   leaked>>

\* An accessor that keeps the error in the cell.
ExtTableInitEnd_CachesError(t) ==
    /\ pc[t] = "tbl_init"
    /\ LET i == call[t].slot
           x == call[t].fam
       IN IF TableLoaded(i, x)
          THEN LET n == inst[i].resolved[x] + 1
               IN /\ inst' = [inst EXCEPT ![i].resolved[x] = n,
                                          ![i].cell[x] =
                                              [st |-> "full", val |-> n]]
                  /\ done' = [Ended(t, "ext_table") EXCEPT
                                 !.kind = "Ok", !.tbl = n, !.resolved = TRUE,
                                 !.again = (inst[i].failedLast = x)]
          ELSE /\ inst' = [inst EXCEPT ![i].cell[x].st = "full",
                                       ![i].failedLast = x]
               /\ done' = [Ended(t, "ext_table") EXCEPT
                              !.kind = "MissingExtensionError", !.name = x,
                              !.again = (inst[i].failedLast = x)]
    /\ pc' = [pc EXCEPT ![t] = "idle"]
    /\ call' = [call EXCEPT ![t] = NoCall]
    /\ UNCHANGED sharingVars
    /\ UNCHANGED <<debugBuild, loaderVars, extCacheVars, layerCacheVars,
                   leaked>>

\* The closure: the family's table is resolved from the driver if the
\* extension was loaded, and the cell filled; otherwise MissingExtensionError
\* and the cell stays empty.
ExtTableInitEnd(t) ==
    /\ pc[t] = "tbl_init"
    /\ LET i == call[t].slot
           x == call[t].fam
       IN IF TableLoaded(i, x)
          THEN LET n == inst[i].resolved[x] + 1
               IN /\ inst' = [inst EXCEPT ![i].resolved[x] = n,
                                          ![i].cell[x] =
                                              [st |-> "full", val |-> n]]
                  /\ done' = [Ended(t, "ext_table") EXCEPT
                                 !.kind = "Ok", !.tbl = n, !.resolved = TRUE,
                                 !.again = (inst[i].failedLast = x)]
          ELSE /\ inst' = [inst EXCEPT ![i].cell[x].st = "empty",
                                       ![i].failedLast = x]
               /\ done' = [Ended(t, "ext_table") EXCEPT
                              !.kind = "MissingExtensionError", !.name = x,
                              !.again = (inst[i].failedLast = x)]
    /\ pc' = [pc EXCEPT ![t] = "idle"]
    /\ call' = [call EXCEPT ![t] = NoCall]
    /\ UNCHANGED sharingVars
    /\ UNCHANGED <<debugBuild, loaderVars, extCacheVars, layerCacheVars,
                   leaked>>

\* A drop that lets go of the loader before the native instance.
DropInstance_Reversed(t, i) ==
    /\ Usable(t, i)
    /\ \A u \in Threads : ~(pc[u] = "tbl_init" /\ call[u].slot = i)
    /\ ReleaseEntryRef
    /\ call' = [call EXCEPT ![t] = [NoCall EXCEPT !.op = "drop", !.slot = i]]
    /\ pc' = [pc EXCEPT ![t] = "drop_native"]
    /\ done' = NoDone
    /\ UNCHANGED sharingVars
    /\ UNCHANGED <<debugBuild, appEntry, extCacheVars, layerCacheVars, inst,
                   leaked>>

\* ------------------------------------ Drop for Instance (instance/mod.rs 239)
\* The last Arc<Instance> goes: nobody is inside a call on the Instance.
\* Drop::drop runs first: destroy_instance.
DropInstance(t, i) ==
    /\ Usable(t, i)
    /\ \A u \in Threads : ~(pc[u] = "tbl_init" /\ call[u].slot = i)
    /\ inst' = [inst EXCEPT ![i].st = "destroyed",
                            ![i].destroyed = inst[i].destroyed + 1]
    /\ call' = [call EXCEPT ![t] = [NoCall EXCEPT !.op = "drop", !.slot = i]]
    /\ pc' = [pc EXCEPT ![t] = "drop_fields"]
    /\ UNCHANGED sharingVars
    /\ UNCHANGED <<debugBuild, loaderVars, extCacheVars, layerCacheVars,
                   leaked>>
    /\ done' = NoDone

\* Then the fields are dropped, `entry` among them: nothing of the Instance
\* is left but the fact that its native handle was destroyed.
DropInstanceFields(t) ==
    /\ pc[t] = "drop_fields"
    /\ inst' = [inst EXCEPT ![call[t].slot] =
                  [NoInstance EXCEPT
                      !.st = "dropped",
                      !.destroyed = inst[call[t].slot].destroyed]]
    /\ ReleaseEntryRef
    /\ pc' = [pc EXCEPT ![t] = "idle"]
    /\ call' = [call EXCEPT ![t] = NoCall]
    /\ done' = Ended(t, "drop")
    /\ UNCHANGED sharingVars
    /\ UNCHANGED <<debugBuild, appEntry, extCacheVars, layerCacheVars,
                   leaked>>

\* ------------------------- SharingQueues (sync/sharing_mode.rs 9-58)
\* A device::Queue as far as SharingQueues looks at it: its device, its
\* family index and its index.
Queues ==
    [device : 1..MaxDevices,
     family : 0..(MaxQueueId - 1),
     index : 0..(MaxQueueId - 1)]

\* ids.sort(): insertion into a sorted list, then the list.
RECURSIVE InsertSorted(_, _)
InsertSorted(s, v) ==
    IF s = <<>> THEN <<v>>
    ELSE IF v <= Head(s) THEN <<v>> \o s
    ELSE <<Head(s)>> \o InsertSorted(Tail(s), v)

RECURSIVE Sort(_)
Sort(s) ==
    IF s = <<>> THEN <<>> ELSE InsertSorted(Sort(Tail(s)), Head(s))

\* ids.dedup(): consecutive repeats are removed.
RECURSIVE Dedup(_)
Dedup(s) ==
    IF Len(s) < 2 THEN s
    ELSE IF s[1] = s[2] THEN Dedup(Tail(s))
    ELSE <<s[1]>> \o Dedup(Tail(s))

\* From<I>: panics on queues of different devices (assert_eq) and on no
\* queue at all (device.unwrap()); otherwise the sorted family indices
\* without repeats.
SharingFromPanics(qs) ==
    \/ qs = <<>>
    \/ \E k \in 1..Len(qs) : qs[k].device # qs[1].device

SharingFromOf(qs) ==
    [st |-> "live", device |-> qs[1].device,
     queues |-> Dedup(Sort([k \in 1..Len(qs) |-> qs[k].family]))]

SharingFrom(n) ==
    /\ sharing.st = "none"
    /\ \E qs \in SeqsUpTo(Queues, n) :
          IF SharingFromPanics(qs)
          THEN /\ sharingRet' = [NoSharingRet EXCEPT !.op = "from",
                                                     !.kind = "panic"]
               /\ UNCHANGED sharing
          ELSE /\ sharing' = SharingFromOf(qs)
               /\ sharingRet' = [NoSharingRet EXCEPT !.op = "from",
                                                     !.kind = "Ok"]
    /\ UNCHANGED coreVars

\* SharingQueues::contains
SharingContainsOf(q) ==
    /\ sharing.device = q.device
    /\ \E k \in 1..Len(sharing.queues) : sharing.queues[k] = q.index

SharingContains ==
    /\ sharing.st = "live"
    /\ \E q \in Queues :
          sharingRet' = [NoSharingRet EXCEPT
                            !.op = "contains",
                            !.kind = IF SharingContainsOf(q) THEN "true"
                                     ELSE "false"]
    /\ UNCHANGED <<coreVars, sharing>>

\* SharingQueues::insert: a queue that is not contained is pushed; one of
\* another device is not contained and fails the assert_eq.
SharingInsert ==
    /\ sharing.st = "live"
    /\ \E q \in Queues :
          IF SharingContainsOf(q)
          THEN /\ sharingRet' = [NoSharingRet EXCEPT !.op = "insert",
                                                     !.kind = "false"]
               /\ UNCHANGED sharing
          ELSE IF sharing.device # q.device
          THEN /\ sharingRet' = [NoSharingRet EXCEPT !.op = "insert",
                                                     !.kind = "panic"]
               /\ UNCHANGED sharing
          ELSE /\ sharing' = [sharing EXCEPT
                                 !.queues = Append(sharing.queues, q.index)]
               /\ sharingRet' = [NoSharingRet EXCEPT !.op = "insert",
                                                     !.kind = "true"]
    /\ UNCHANGED coreVars

\* SharingQueues::as_vulkan (lines 15-21): the mode, the count and the
\* list behind the pointer (a null pointer is the empty list).
AsVulkanOf(queues) ==
    IF Len(queues) > 1
    THEN [mode |-> "EXCLUSIVE", count |-> 0, indices |-> <<>>]
    ELSE [mode |-> "CONCURRENT", count |-> Len(queues), indices |-> queues]

AsVulkan ==
    /\ sharing.st = "live"
    /\ LET r == AsVulkanOf(sharing.queues)
       IN sharingRet' = [NoSharingRet EXCEPT
                            !.op = "as_vulkan", !.kind = "Ok",
                            !.mode = r.mode, !.count = r.count,
                            !.indices = r.indices]
    /\ UNCHANGED <<coreVars, sharing>>

\* ------------------------------------------------------- specifications
\* One step of thread t, with driver replies of at most dn names, requests
\* of at most rn entries and at most an adapters.
ThreadStep(t, dn, rn, an) ==
    \/ ExtGet(t)
    \/ ExtInitBegin(t, dn)
    \/ ExtInitEnd(t)
    \/ LayerGet(t)
    \/ LayerInitBegin(t, dn)
    \/ LayerInitEnd(t)
    \/ StartCreate(t, rn)
    \/ CreateNegotiate(t, an)
    \/ ExtTableInitEnd(t)
    \/ DropInstanceFields(t)
    \/ \E i \in Slots :
          \/ PhysicalDevices(t, i)
          \/ PhysicalDevice(t, i, an)
          \/ DropInstance(t, i)
          \/ \E x \in Extension :
                \/ ExtTableGet(t, i, x)
                \/ ExtTableInitBegin(t, i, x)

Next ==
    \/ EntryNew
    \/ AppDropEntry
    \/ \E t \in Threads :
          ThreadStep(t, ConcDriverNames, ConcReq, ConcAdapters)

Spec ==
    Init /\ [][Next]_vars

NextSeq ==
    \/ EntryNew
    \/ AppDropEntry
    \/ \E t \in SeqThreads :
          ThreadStep(t, MaxDriverNames, MaxReq, MaxAdapters)

SpecSeq ==
    Init /\ [][NextSeq]_vars

NextSharing ==
    \/ SharingFrom(MaxFromLen)
    \/ SharingContains
    \/ SharingInsert
    \/ AsVulkan

SpecSharing ==
    Init /\ [][NextSharing]_vars
\* ------------------------------------------------------------- properties
\* The formulas below read `done`, the call that ended in the last step: a
\* formula about what a call returns is an invariant over every state in
\* which such a call has just ended.
\* A call of create has just returned (a panic returns nothing).
CreateReturned ==
    done.op = "create" /\ done.kind # "panic"

\* The requested extensions that the loader does not have.
UnavailableExts ==
    {e \in Range(done.reqExt) : e \notin done.availExt}

\* C1: a create whose request holds an extension that is not in the loader's
\* available set returns MissingExtension naming such an extension, and no
\* run of such a create, returning or not, calls the native create_instance.
C1_AllOrNothing ==
    (done.op = "create" /\ UnavailableExts # {}) =>
        /\ ~done.native
        /\ CreateReturned =>
              /\ done.kind = "MissingExtension"
              /\ done.name \in UnavailableExts

\* A create returned MissingExtension for a request with one available and
\* one unavailable extension.
C1_Witness ==
    /\ CreateReturned
    /\ done.kind = "MissingExtension"
    /\ Len(done.reqExt) = 2
    /\ done.reqExt[1] \in done.availExt
    /\ done.reqExt[2] \notin done.availExt

\* The threads inside the closure of Entry::extensions / validation_layers.
ExtInitialisers ==
    {t \in Threads : pc[t] \in {"ext_init", "create_ext_init"}}

LayerInitialisers ==
    {t \in Threads : pc[t] \in {"lay_init", "create_lay_init"}}

\* C2 as stated: once a query of a kind has been called, the driver
\* enumeration of that kind has run exactly once, and all calls returned the
\* same set.
C2_Original ==
    /\ extEnumCalls > 0 => extEnumCalls = 1
    /\ layerEnumCalls > 0 => layerEnumCalls = 1
    /\ Cardinality(extReturned) <= 1
    /\ Cardinality(layerReturned) <= 1

\* C2 (amended): apart from the runs of the closure that ended in a panic,
\* the driver enumeration of a kind has run exactly once as soon as the cache
\* is in use and never before; every call that returned returned the one set
\* the cache holds.
C2_IdempotentQueries ==
    /\ extEnumCalls - extInitPanics
          = (IF extensions.st = "empty" THEN 0 ELSE 1)
    /\ layerEnumCalls - layerInitPanics
          = (IF layers.st = "empty" THEN 0 ELSE 1)
    /\ extReturned # {} =>
          extensions.st = "full" /\ extReturned = {extensions.val}
    /\ layerReturned # {} =>
          layers.st = "full" /\ layerReturned = {layers.val}

\* A stand-alone call of Entry::extensions returned a non-empty set from the
\* cache, after an earlier run of the closure had panicked.
C2_Witness ==
    /\ done.op = "extensions"
    /\ done.kind = "Ok"
    /\ done.raw = <<>>
    /\ done.set # {}
    /\ extInitPanics = 1
    /\ extEnumCalls = 2

\* C3 as stated: racing first calls make exactly one driver enumeration, and
\* every caller returns the set in the cache.
C3_Original ==
    /\ extEnumCalls <= 1
    /\ layerEnumCalls <= 1
    /\ (done.op = "extensions" /\ done.kind = "Ok") =>
          extensions.st = "full" /\ done.set = extensions.val
    /\ (done.op = "validation_layers" /\ done.kind = "Ok") =>
          layers.st = "full" /\ done.set = layers.val

\* C3 (amended): at any time at most one caller is inside the closure of a
\* query, and it is there exactly while the cell is being initialised; every
\* enumeration beyond the first follows a run that panicked; a caller that
\* returns returns the content of the filled cell, which for the caller that
\* ran the closure is the mapping of the whole driver reply.
C3_SingleWinner ==
    /\ Cardinality(ExtInitialisers) <= 1
    /\ Cardinality(LayerInitialisers) <= 1
    /\ (extensions.st = "running") = (ExtInitialisers # {})
    /\ (layers.st = "running") = (LayerInitialisers # {})
    /\ extEnumCalls <= 1 + extInitPanics
    /\ layerEnumCalls <= 1 + layerInitPanics
    /\ (done.op = "extensions" /\ done.kind = "Ok") =>
          /\ extensions.st = "full"
          /\ done.set = extensions.val
          /\ done.raw # <<>> =>
                done.set = {e \in Extension : ExtCName(e) \in Range(done.raw)}
    /\ (done.op = "validation_layers" /\ done.kind = "Ok") =>
          /\ layers.st = "full"
          /\ done.set = layers.val
          /\ done.raw # <<>> =>
                done.set = {l \in ValidationLayer :
                               LayerCName(l) \in Range(done.raw)}

\* One thread is inside the closure of Entry::extensions with a known name
\* to map while another, at line 86 of create, waits for the cell.
C3_Witness ==
    \E t, u \in Threads :
        /\ pc[t] = "ext_init"
        /\ call[t].raw # <<>>
        /\ ExtFromCName(call[t].raw[1]) # {}
        /\ pc[u] = "create_ext"
        /\ extEnumCalls = 1

\* An extension-table accessor has just returned.
TableReturned ==
    done.op = "ext_table"

\* C4: an accessor of family X returns MissingExtensionError(X) exactly when
\* X is not in the Instance's loaded_extensions, and then nothing was
\* resolved: not by this call, and not ever for that family.
C4_TableGating ==
    /\ TableReturned =>
          LET i == done.slot
              x == done.fam
          IN /\ done.kind \in {"Ok", "MissingExtensionError"}
             /\ (done.kind = "MissingExtensionError") = (x \notin inst[i].loaded)
             /\ done.kind = "MissingExtensionError" =>
                   /\ done.name = x
                   /\ ~done.resolved
                   /\ inst[i].resolved[x] = 0
    /\ \A i \in Slots, x \in Extension :
          x \notin inst[i].loaded =>
             inst[i].resolved[x] = 0 /\ inst[i].cell[x].st # "full"

\* An accessor failed on an Instance that has another family loaded and
\* resolved, but not the one asked for.
C4_Witness ==
    /\ TableReturned
    /\ done.kind = "MissingExtensionError"
    /\ \E y \in inst[done.slot].loaded :
          y # "KhrSurface" /\ inst[done.slot].cell[y].st = "full"

\* The threads inside the closure of the accessor of family x of slot i.
TableInitialisers(i, x) ==
    {t \in Threads :
        pc[t] = "tbl_init" /\ call[t].slot = i /\ call[t].fam = x}

\* C5: the table of a family is resolved at most once per Instance, by a
\* single caller at a time, and every successful call returns that one
\* table, whatever the interleaving of the callers.
C5_SingleResolution ==
    /\ \A i \in Slots, x \in Extension :
          /\ inst[i].resolved[x] <= 1
          /\ Cardinality(TableInitialisers(i, x)) <= 1
          /\ (inst[i].cell[x].st = "running") = (TableInitialisers(i, x) # {})
          /\ inst[i].cell[x].st = "full" =>
                inst[i].resolved[x] = 1 /\ inst[i].cell[x].val = 1
    /\ (TableReturned /\ done.kind = "Ok") =>
          /\ inst[done.slot].cell[done.fam].st = "full"
          /\ done.tbl = inst[done.slot].cell[done.fam].val
          /\ inst[done.slot].resolved[done.fam] = 1

\* While one thread is inside the closure of an accessor of the Instance,
\* another gets the table resolved before from its cell, without resolving.
C5_Witness ==
    /\ TableReturned
    /\ done.kind = "Ok"
    /\ ~done.resolved
    /\ inst[done.slot].resolved[done.fam] = 1
    /\ \E t \in Threads, x \in Extension :
          /\ t # done.by
          /\ t \in TableInitialisers(done.slot, x)

\* C6: a create that succeeds leaves in loaded_extensions exactly the
\* requested extensions, whatever their order and however often each was
\* requested.
C6_LoadedIsRequested ==
    (CreateReturned /\ done.kind = "Ok") =>
        /\ inst[done.slot].loaded = Range(done.reqExt)
        /\ inst[done.slot].st = "live"

\* A create succeeded for a request naming one extension twice while the
\* loader has another extension as well.
C6_Witness ==
    /\ CreateReturned
    /\ done.kind = "Ok"
    /\ Len(done.reqExt) = 2
    /\ done.reqExt[1] = done.reqExt[2]
    /\ done.availExt # Range(done.reqExt)

\* C6, second witness: two different extensions, both loaded.
C6_WitnessTwo ==
    /\ CreateReturned
    /\ done.kind = "Ok"
    /\ Cardinality(inst[done.slot].loaded) = 2

\* The Instances that still hold their Arc<Entry>.
HoldingEntry ==
    {i \in Slots : inst[i].st \in {"live", "destroyed"}}

\* C7: an Instance whose native handle is live, or destroyed with the fields
\* not yet dropped, keeps the loader alive; the native handle is destroyed
\* exactly once, before the Instance lets go of the loader.
C7_TeardownOrder ==
    /\ \A i \in Slots :
          /\ inst[i].st \in {"live", "destroyed"} => loader = "live"
          /\ inst[i].st = "live" => inst[i].destroyed = 0
          /\ inst[i].st \in {"destroyed", "dropped"} => inst[i].destroyed = 1
    /\ entryRefs >= Cardinality(HoldingEntry)
    /\ loader = "dropped" => entryRefs = 0

\* In the middle of a drop: the native handle is destroyed and the Instance
\* holds the last reference to the loader, which is still live.
C7_Witness ==
    \E i \in Slots :
        /\ inst[i].st = "destroyed"
        /\ ~appEntry
        /\ entryRefs = 1
        /\ loader = "live"

\* The requested layers that the loader does not have.
UnavailableLayers ==
    {l \in Range(done.reqLay) : l \notin done.availLay}

\* C8: a create whose extensions are all available and whose request holds a
\* layer that is not in the loader's available set returns
\* MissingValidationLayer naming such a layer, without calling the native
\* create_instance.
C8_MissingLayer ==
    (CreateReturned /\ UnavailableExts = {} /\ UnavailableLayers # {}) =>
        /\ done.kind = "MissingValidationLayer"
        /\ done.name \in UnavailableLayers
        /\ ~done.native

\* A debug build returned MissingValidationLayer for a request whose
\* extensions were all available.
C8_Witness ==
    /\ CreateReturned
    /\ done.kind = "MissingValidationLayer"
    /\ done.reqExt # <<>>
    /\ debugBuild

\* C9: in a debug build without the Khronos layer, a create that does not ask
\* for it and whose requests are all available reaches the native call
\* without that layer, among the enabled layers or among the names, and
\* returns Ok when the native call succeeds; with the layer available, every
\* native call has it enabled and named.
C9_DebugLayerOpportunistic ==
    /\ (CreateReturned /\ debugBuild
          /\ "KhronosValidation" \notin done.availLay
          /\ "KhronosValidation" \notin Range(done.reqLay)
          /\ UnavailableExts = {} /\ UnavailableLayers = {}) =>
          /\ done.native
          /\ done.kind # "MissingValidationLayer"
          /\ done.nativeRes = "SUCCESS" => done.kind = "Ok"
    /\ (done.op = "create" /\ done.native /\ debugBuild) =>
          LET on == "KhronosValidation" \in done.availLay
          IN /\ ("KhronosValidation" \in done.enabled) = on
             /\ (LayerCName("KhronosValidation") \in Range(done.layNames)) = on

\* A debug build without the Khronos layer built an Instance with an
\* extension loaded.
C9_Witness ==
    /\ CreateReturned
    /\ debugBuild
    /\ done.kind = "Ok"
    /\ "KhronosValidation" \notin done.availLay
    /\ done.reqExt # <<>>

\* C9, second witness: the layer is there and gets enabled.
C9_WitnessEnabled ==
    /\ CreateReturned
    /\ debugBuild
    /\ done.kind = "Ok"
    /\ done.reqLay = <<>>
    /\ "KhronosValidation" \in done.enabled

\* C10: with N the number of adapters the driver reported at creation,
\* physical_devices gives the views of indices 0..N-1 in order,
\* physical_device(index) is Some exactly for index < N, every view has an
\* index below N, the snapshots are those captured from the reported
\* adapters in their order, and the enumeration ran once.
C10_AdapterCache ==
    /\ \A i \in Slots :
          inst[i].st \in {"live", "destroyed"} =>
             /\ inst[i].devs = CaptureInfo(inst[i].reported)
             /\ inst[i].enumCalls = 1
    /\ (CreateReturned /\ done.kind = "Ok") =>
          inst[done.slot].reported = done.adapters
    /\ done.op = "physical_devices" =>
          LET n == Len(inst[done.slot].reported)
          IN /\ Len(done.views) = n
             /\ \A k \in 1..n :
                   done.views[k] = [slot |-> done.slot, index |-> k - 1]
    /\ done.op = "physical_device" =>
          LET n == Len(inst[done.slot].reported)
          IN /\ (done.kind = "Some") = (done.index < n)
             /\ done.kind \in {"Some", "None"}
             /\ done.kind = "Some" =>
                   done.views = <<[slot |-> done.slot, index |-> done.index]>>
             /\ done.kind = "None" => done.views = <<>>
             /\ \A k \in 1..Len(done.views) : done.views[k].index < n

\* Two adapters reported in the order 2, 1: physical_device(2) is None.
C10_Witness ==
    /\ done.op = "physical_device"
    /\ done.kind = "None"
    /\ done.index = 2
    /\ inst[done.slot].reported = <<2, 1>>
    /\ inst[done.slot].devs[1].handle = 2

\* C11 as stated: create never reports LoadError once an availability query,
\* a check of the request or the native create has taken place.
C11_Original ==
    (done.op = "create" /\ done.kind = "LoadError") =>
        /\ ~done.native
        /\ extEnumCalls = 0
        /\ layerEnumCalls = 0

\* C11 (amended): a loader that cannot be found is reported by Entry::new,
\* before anything else can happen: no Entry exists, so no query has run, no
\* create was started and no Instance built.  The LoadError of create is a
\* different failure: it comes out of the native create_instance call, after
\* both availability queries and both checks of the request have passed.
C11_LoadErrorAfterNative ==
    /\ loader = "failed" =>
          /\ entryRefs = 0
          /\ ~appEntry
          /\ extEnumCalls = 0
          /\ layerEnumCalls = 0
          /\ leaked = 0
          /\ \A i \in Slots : inst[i].st = "none"
          /\ \A t \in Threads : pc[t] = "idle"
    /\ (done.op = "create" /\ done.kind = "LoadError") =>
          /\ done.native
          /\ done.nativeRes = "LoadError"
          /\ extensions.st = "full"
          /\ layers.st = "full"
          /\ UnavailableExts = {}
          /\ UnavailableLayers = {}

\* A create with a request that passed negotiation returned LoadError.
C11_Witness ==
    /\ done.op = "create"
    /\ done.kind = "LoadError"
    /\ done.reqExt # <<>>
    /\ done.native
    /\ extEnumCalls >= 1

\* C12: when the native create fails, create returns OutOfMemory(Host),
\* OutOfMemory(Device), InitializationFailed or IncompatibleDriver for the
\* code of that name; a native extension-not-present or layer-not-present
\* code panics and is never returned as MissingExtension or
\* MissingValidationLayer; in no such case is an Instance returned.
C12_NativeFailureMapping ==
    (done.op = "create" /\ done.native /\ done.nativeRes # "SUCCESS") =>
        /\ done.kind # "Ok"
        /\ done.slot = 0
        /\ done.kind \notin {"MissingExtension", "MissingValidationLayer"}
        /\ done.nativeRes = "ERROR_OUT_OF_HOST_MEMORY" =>
              done.kind = "OutOfMemoryHost"
        /\ done.nativeRes = "ERROR_OUT_OF_DEVICE_MEMORY" =>
              done.kind = "OutOfMemoryDevice"
        /\ done.nativeRes = "ERROR_INITIALIZATION_FAILED" =>
              done.kind = "InitializationFailed"
        /\ done.nativeRes = "ERROR_INCOMPATIBLE_DRIVER" =>
              done.kind = "IncompatibleDriver"
        /\ done.nativeRes \in {"ERROR_EXTENSION_NOT_PRESENT",
                               "ERROR_LAYER_NOT_PRESENT"} =>
              done.kind = "panic"

\* The driver answered layer-not-present to a request that had passed the
\* layer check, and create panicked.
C12_Witness ==
    /\ done.op = "create"
    /\ done.nativeRes = "ERROR_LAYER_NOT_PRESENT"
    /\ done.kind = "panic"
    /\ done.reqLay # <<>>

\* C13: whatever names the driver reports, known and unknown in any mix, the
\* query that mapped them completes and returns exactly the known members
\* whose canonical name is in the list.
C13_UnknownNamesSkipped ==
    /\ (done.op = "extensions" /\ done.raw # <<>>) =>
          /\ done.kind = "Ok"
          /\ done.set = {e \in Extension : ExtCName(e) \in Range(done.raw)}
    /\ (done.op = "validation_layers" /\ done.raw # <<>>) =>
          /\ done.kind = "Ok"
          /\ done.set = {l \in ValidationLayer :
                            LayerCName(l) \in Range(done.raw)}

\* C14: the step in which a create returns Ok leaves every extension table
\* cell of the new Instance empty and nothing resolved; a cell of family x
\* becomes filled only in a step in which a call of the accessor of x on that
\* Instance returns Ok after resolving, and x is then a loaded extension.
C14_TablesStartEmpty ==
    [][/\ (done'.op = "create" /\ done'.kind = "Ok") =>
             \A x \in Extension :
                /\ inst'[done'.slot].cell[x] = [st |-> "empty", val |-> 0]
                /\ inst'[done'.slot].resolved[x] = 0
       /\ \A i \in Slots, x \in Extension :
             (inst[i].cell[x].st # "full" /\ inst'[i].cell[x].st = "full") =>
                /\ done'.op = "ext_table"
                /\ done'.kind = "Ok"
                /\ done'.resolved
                /\ done'.slot = i
                /\ done'.fam = x
                /\ x \in inst[i].loaded]_vars

\* A create has just returned an Instance with two extensions loaded and
\* all four cells empty.
C14_Witness ==
    /\ CreateReturned
    /\ done.kind = "Ok"
    /\ Cardinality(inst[done.slot].loaded) = 2
    /\ \A x \in Extension : inst[done.slot].cell[x].st = "empty"

\* C15: as_vulkan returns CONCURRENT with the count and the list of the
\* queue indices when the set holds more than one, and EXCLUSIVE with an
\* empty list when it holds at most one.
C15_SharingModeNaming ==
    sharingRet.op = "as_vulkan" =>
        IF Len(sharing.queues) > 1
        THEN /\ sharingRet.mode = "CONCURRENT"
             /\ sharingRet.count = Len(sharing.queues)
             /\ sharingRet.indices = sharing.queues
        ELSE /\ sharingRet.mode = "EXCLUSIVE"
             /\ sharingRet.indices = <<>>

\* C16: a call of the accessor of family x that returns
\* MissingExtensionError leaves the cell of x empty, with nothing resolved;
\* a family whose accessor failed last never has a filled cell; and a call
\* that follows a failed call for the same family fails again.
C16_FailureNotCached ==
    /\ (TableReturned /\ done.kind = "MissingExtensionError") =>
          /\ inst[done.slot].cell[done.fam] = [st |-> "empty", val |-> 0]
          /\ inst[done.slot].resolved[done.fam] = 0
          /\ inst[done.slot].failedLast = done.fam
          /\ done.name = done.fam
    /\ \A i \in Slots, x \in Extension :
          inst[i].failedLast = x =>
             /\ inst[i].cell[x].st \in {"empty", "running"}
             /\ inst[i].cell[x].val = 0
             /\ x \notin inst[i].loaded
    /\ (TableReturned /\ done.again) =>
          done.kind = "MissingExtensionError"

\* The accessor of a family failed, and it had failed before for that
\* family, while the table of another family is resolved.
C16_Witness ==
    /\ TableReturned
    /\ done.kind = "MissingExtensionError"
    /\ done.again
    /\ \E y \in Extension : inst[done.slot].cell[y].st = "full"

\* What a step of the accessor of family x on the Instance in slot i must
\* leave alone: the cells and resolution counts of every other family and
\* Instance, every Instance's loaded_extensions and adapter snapshots, and
\* the Entry's two availability caches.
TableFrame(i, x) ==
    /\ \A j \in Slots, y \in Extension :
          (j # i \/ y # x) =>
             /\ inst'[j].cell[y] = inst[j].cell[y]
             /\ inst'[j].resolved[y] = inst[j].resolved[y]
    /\ \A j \in Slots :
          /\ inst'[j].st = inst[j].st
          /\ inst'[j].loaded = inst[j].loaded
          /\ inst'[j].devs = inst[j].devs
          /\ inst'[j].reported = inst[j].reported
          /\ inst'[j].enumCalls = inst[j].enumCalls
    /\ UNCHANGED <<extensions, layers, extEnumCalls, layerEnumCalls>>

\* C17: every step of a table accessor, the one that enters the closure and
\* the one that returns, successfully or not, changes nothing but the cell
\* of its own family on its own Instance.
C17_SlotIndependence ==
    [][/\ done'.op = "ext_table" => TableFrame(done'.slot, done'.fam)
       /\ \A t \in Threads :
             (pc[t] # "tbl_init" /\ pc'[t] = "tbl_init") =>
                TableFrame(call'[t].slot, call'[t].fam)]_vars

\* The accessor of one family has just resolved its table on an Instance
\* where the table of another family was resolved before and is still
\* there.
C17_Witness ==
    /\ TableReturned
    /\ done.kind = "Ok"
    /\ done.resolved
    /\ \E y \in Extension :
          /\ y # done.fam
          /\ inst[done.slot].cell[y] = [st |-> "full", val |-> 1]

\* The position in the request of the first extension that is not available
\* (0 if there is none).
FirstUnavailableExt ==
    IF UnavailableExts = {} THEN 0
    ELSE CHOOSE k \in 1..Len(done.reqExt) :
            /\ done.reqExt[k] \notin done.availExt
            /\ \A j \in 1..(k - 1) : done.reqExt[j] \in done.availExt

\* C18: a create that returns for a request with an unavailable extension
\* returns MissingExtension naming the first such extension in request
\* order, also when a requested layer is unavailable too; and a create that
\* reports a missing extension or layer has made both availability queries
\* before and judged the request by their results.
C18_CheckOrder ==
    /\ (CreateReturned /\ UnavailableExts # {}) =>
          /\ done.kind = "MissingExtension"
          /\ done.name = done.reqExt[FirstUnavailableExt]
    /\ (CreateReturned
          /\ done.kind \in {"MissingExtension", "MissingValidationLayer"}) =>
          /\ extensions.st = "full"
          /\ layers.st = "full"
          /\ extEnumCalls >= 1
          /\ layerEnumCalls >= 1
          /\ done.availExt = extensions.val
          /\ done.availLay = layers.val

\* Two different extensions, both unavailable, and an unavailable layer
\* were requested: MissingExtension names the first extension.
C18_Witness ==
    /\ CreateReturned
    /\ done.kind = "MissingExtension"
    /\ Len(done.reqExt) = 2
    /\ done.reqExt[1] # done.reqExt[2]
    /\ Range(done.reqExt) \subseteq UnavailableExts
    /\ UnavailableLayers # {}
    /\ done.name = done.reqExt[1]

\* C19: every native instance that create_instance produced is owned by an
\* Instance or has been destroyed, on every path of create; and the native
\* handle of an Instance is destroyed exactly once, when it is dropped.
C19_NoLeakNoDoubleDestroy ==
    /\ leaked = 0
    /\ \A i \in Slots :
          /\ inst[i].st = "live" => inst[i].destroyed = 0
          /\ inst[i].st \in {"destroyed", "dropped"} => inst[i].destroyed = 1

\* How often v occurs in the sequence s.
CountIn(s, v) ==
    Cardinality({k \in 1..Len(s) : s[k] = v})

\* C20: the extension names passed to the native create are the canonical
\* names of the members of loaded_extensions, each exactly once, and the
\* layer names those of the enabled layers, each exactly once.
C20_NameListsMatchSets ==
    (done.op = "create" /\ done.native) =>
        /\ \A e \in Extension :
              CountIn(done.extNames, ExtCName(e))
                 = (IF e \in Range(done.reqExt) THEN 1 ELSE 0)
        /\ Range(done.extNames) \subseteq {ExtCName(e) : e \in Extension}
        /\ \A l \in ValidationLayer :
              CountIn(done.layNames, LayerCName(l))
                 = (IF l \in done.enabled THEN 1 ELSE 0)
        /\ Range(done.layNames)
              \subseteq {LayerCName(l) : l \in ValidationLayer}

====
